---- MODULE Spec2Model ----
(***************************************************************************)
(* Model of the markdown-to-wordpress migration tool.                      *)
(*                                                                         *)
(* Step 0 (etl/0-image-processing/main.py, class ImageProcessor) scans a   *)
(* tree of markdown documents, indexes the image references it can resolve *)
(* to existing files, and derives a rename map, an orphan list and a usage *)
(* report from the indices.                                                *)
(*                                                                         *)
(* Text is modelled as a sequence of characters, a path as the pathlib     *)
(* pair (absolute?, parts), and the file system as a set of canonical      *)
(* absolute paths, so that joining, resolving, existence, relative_to and  *)
(* str() are computed the way pathlib and the OS compute them.             *)
(***************************************************************************)
EXTENDS Integers, Sequences, FiniteSets, TLC

(***************************************************************************)
(* Bounds of the model                                                     *)
(***************************************************************************)
\* size of the input tree: frontmatter entries plus body references, all documents
MaxEntries == 2
\* number of scans (analyze_image_usage runs) on one ImageProcessor
MaxScans == 2

(***************************************************************************)
(* Characters and text                                                     *)
(***************************************************************************)
\* characters that are not ASCII are named by their code point
LowerLetters ==
    {"a", "b", "d", "e", "g", "i", "l", "m", "n", "p", "q", "r", "s", "t", "u", "w", "x", "y", "z"}
UpperLetters == {"M", "T", "P", "N", "G"}
Digits == {"0", "1", "2", "3", "4", "5", "6", "7", "8", "9"}
Spaces == {" "}
NonAscii == {"U+00E9", "U+0301", "U+2122"}

\* str.lower() on one character
LowerChar(c) ==
    CASE c = "M" -> "m"
      [] c = "T" -> "t"
      [] c = "P" -> "p"
      [] c = "N" -> "n"
      [] c = "G" -> "g"
      [] OTHER -> c

RECURSIVE MapLower(_)
MapLower(s) == IF s = <<>> THEN <<>> ELSE <<LowerChar(Head(s))>> \o MapLower(Tail(s))

StartsWith(s, pre) == Len(s) >= Len(pre) /\ SubSeq(s, 1, Len(pre)) = pre

\* str.lstrip(c)
RECURSIVE LStrip(_, _)
LStrip(s, cs) == IF s # <<>> /\ Head(s) \in cs THEN LStrip(Tail(s), cs) ELSE s

\* str.rstrip(c)
RECURSIVE RStrip(_, _)
RStrip(s, cs) ==
    IF s # <<>> /\ s[Len(s)] \in cs THEN RStrip(SubSeq(s, 1, Len(s) - 1), cs) ELSE s

Strip(s, cs) == RStrip(LStrip(s, cs), cs)

\* re.sub('[^...]', '', s): delete every character outside the class
RECURSIVE DeleteNotIn(_, _)
DeleteNotIn(s, keep) ==
    IF s = <<>> THEN <<>>
    ELSE (IF Head(s) \in keep THEN <<Head(s)>> ELSE <<>>) \o DeleteNotIn(Tail(s), keep)

\* re.sub('[...]+', rep, s): every maximal run of the class becomes rep
RECURSIVE ReplaceRuns(_, _, _)
ReplaceRuns(s, cs, rep) ==
    IF s = <<>> THEN <<>>
    ELSE IF Head(s) \in cs THEN <<rep>> \o ReplaceRuns(LStrip(s, cs), cs, rep)
    ELSE <<Head(s)>> \o ReplaceRuns(Tail(s), cs, rep)

\* s.rfind(c), 1-based, 0 when absent
RECURSIVE RFind(_, _)
RFind(s, c) ==
    IF s = <<>> THEN 0
    ELSE IF s[Len(s)] = c THEN Len(s)
    ELSE RFind(SubSeq(s, 1, Len(s) - 1), c)

\* s.split(sep) on a single character
RECURSIVE SplitFrom(_, _, _)
SplitFrom(s, sep, piece) ==
    IF s = <<>> THEN <<piece>>
    ELSE IF Head(s) = sep THEN <<piece>> \o SplitFrom(Tail(s), sep, <<>>)
    ELSE SplitFrom(Tail(s), sep, Append(piece, Head(s)))

Split(s, sep) == SplitFrom(s, sep, <<>>)

\* sep.join(parts)
RECURSIVE Join(_, _)
Join(parts, sep) ==
    IF parts = <<>> THEN <<>>
    ELSE IF Len(parts) = 1 THEN parts[1]
    ELSE parts[1] \o <<sep>> \o Join(Tail(parts), sep)

RECURSIVE SelectNonTrivial(_)
SelectNonTrivial(ps) ==
    IF ps = <<>> THEN <<>>
    ELSE (IF Head(ps) = <<>> \/ Head(ps) = <<".">> THEN <<>> ELSE <<Head(ps)>>)
         \o SelectNonTrivial(Tail(ps))

\* f"{n:02d}"
DigitChar(d) ==
    CASE d = 0 -> "0" [] d = 1 -> "1" [] d = 2 -> "2" [] d = 3 -> "3" [] d = 4 -> "4"
      [] d = 5 -> "5" [] d = 6 -> "6" [] d = 7 -> "7" [] d = 8 -> "8" [] d = 9 -> "9"

RECURSIVE Decimal(_)
Decimal(n) == IF n < 10 THEN <<DigitChar(n)>> ELSE Decimal(n \div 10) \o <<DigitChar(n % 10)>>

Format02d(n) == IF n < 10 THEN <<"0">> \o Decimal(n) ELSE Decimal(n)

(***************************************************************************)
(* Slug Deriver: ImageProcessor._slugify                                   *)
(***************************************************************************)
\* unicodedata.normalize('NFKD', c) for one character
NFKDChar(c) ==
    CASE c = "U+00E9" -> <<"e", "U+0301">>
      [] c = "U+2122" -> <<"T", "M">>
      [] OTHER -> <<c>>

RECURSIVE NFKD(_)
NFKD(s) == IF s = <<>> THEN <<>> ELSE NFKDChar(Head(s)) \o NFKD(Tail(s))

\* s.encode('ascii', 'ignore').decode('ascii')
RECURSIVE AsciiIgnore(_)
AsciiIgnore(s) ==
    IF s = <<>> THEN <<>>
    ELSE (IF Head(s) \in NonAscii THEN <<>> ELSE <<Head(s)>>) \o AsciiIgnore(Tail(s))

\* the regular expression class [\w\s-] over ASCII text
WordSpaceHyphen == LowerLetters \cup UpperLetters \cup Digits \cup {"_"} \cup Spaces \cup {"-"}

_slugify(text) ==
    LET s1 == Strip(MapLower(text), Spaces)
        s2 == AsciiIgnore(NFKD(s1))
        s3 == DeleteNotIn(s2, WordSpaceHyphen)
        s4 == ReplaceRuns(s3, Spaces \cup {"_"}, "-")
        s5 == ReplaceRuns(s4, {"-"}, "-")
        s6 == Strip(s5, {"-"})
    IN IF s6 = <<>> THEN <<"u", "n", "t", "i", "t", "l", "e", "d">> ELSE s6

(***************************************************************************)
(* Paths (pathlib.PurePosixPath / Path) and the file system                *)
(***************************************************************************)
\* Path(s): a leading '/' makes the path absolute; empty and '.' components vanish
ParsePath(s) == [abs |-> StartsWith(s, <<"/">>), parts |-> SelectNonTrivial(Split(s, "/"))]

\* p / s
JoinPath(p, s) ==
    LET q == ParsePath(s)
    IN IF q.abs THEN q ELSE [abs |-> p.abs, parts |-> p.parts \o q.parts]

\* p.parent
Parent(p) ==
    IF p.parts = <<>> THEN p ELSE [p EXCEPT !.parts = SubSeq(p.parts, 1, Len(p.parts) - 1)]

\* p.name, p.suffix, p.stem
PathName(p) == IF p.parts = <<>> THEN <<>> ELSE p.parts[Len(p.parts)]

PathSuffix(p) ==
    LET name == PathName(p)
        i == RFind(name, ".")
    IN IF 1 < i /\ i < Len(name) THEN SubSeq(name, i, Len(name)) ELSE <<>>

PathStem(p) ==
    LET name == PathName(p)
        i == RFind(name, ".")
    IN IF 1 < i /\ i < Len(name) THEN SubSeq(name, 1, i - 1) ELSE name

\* str(p)
PathStr(p) ==
    IF p.abs THEN <<"/">> \o Join(p.parts, "/")
    ELSE IF p.parts = <<>> THEN <<".">> ELSE Join(p.parts, "/")

\* names of the directories and files of the tree
W == <<"w">>
R == <<"r">>
A == <<"a">>
B == <<"b">>
PMd == <<"p", ".", "m", "d">>
XPng == <<"x", ".", "p", "n", "g">>
YPng == <<"y", ".", "p", "n", "g">>
ZBackslash == <<"z", ".", "p", "\\", "g">>

\* the working directory of the process, and the scanned root below it
Cwd == <<W>>
RootParts == <<W, R>>

\* the markdown documents and the other files of the tree, relative to the root
MdRel == {<<A, PMd>>, <<B, PMd>>}
OtherRel == {<<A, XPng>>, <<A, YPng>>, <<B, ZBackslash>>}
\* a file next to the scanned root, outside it
OutsideFiles == {<<W, XPng>>}

Files == {RootParts \o rel : rel \in MdRel \cup OtherRel} \cup OutsideFiles
Dirs == {<<>>, <<W>>, <<W, R>>, <<W, R, A>>, <<W, R, B>>}

\* collapse '..' lexically, as os.path.realpath does on a tree without symlinks
RECURSIVE Collapse(_, _)
Collapse(done, rest) ==
    IF rest = <<>> THEN done
    ELSE IF Head(rest) = <<".", ".">>
         THEN Collapse(IF done = <<>> THEN <<>> ELSE SubSeq(done, 1, Len(done) - 1), Tail(rest))
         ELSE Collapse(Append(done, Head(rest)), Tail(rest))

\* p.resolve()
Resolve(p) ==
    [abs |-> TRUE, parts |-> Collapse(<<>>, IF p.abs THEN p.parts ELSE Cwd \o p.parts)]

\* the OS looks a path up component by component: every step starts in a directory
RECURSIVE Lookup(_, _)
Lookup(cur, rest) ==
    IF rest = <<>> THEN cur \in Dirs \cup Files
    ELSE /\ cur \in Dirs
         /\ Lookup(IF Head(rest) = <<".", ".">>
                   THEN (IF cur = <<>> THEN <<>> ELSE SubSeq(cur, 1, Len(cur) - 1))
                   ELSE Append(cur, Head(rest)),
                   Tail(rest))

\* p.exists()
Exists(p) == Lookup(IF p.abs THEN <<>> ELSE Cwd, p.parts)

\* the file a path denotes (for a path that exists)
Denotes(p) == Resolve(p).parts

\* p.relative_to(base): the parts after base, or ValueError
ValueError == [exc |-> "ValueError"]
RelativeTo(p, base) ==
    IF p.abs = base.abs /\ StartsWith(p.parts, base.parts)
    THEN [abs |-> FALSE, parts |-> SubSeq(p.parts, Len(base.parts) + 1, Len(p.parts))]
    ELSE ValueError

\* the scanned root as the program receives it: an absolute, canonical path
InputDirs == {[abs |-> TRUE, parts |-> RootParts]}

(***************************************************************************)
(* The input tree: markdown documents and the references written in them   *)
(***************************************************************************)
Slash == <<"/">>
DotDot == <<".", ".">>
NPng == <<"n", ".", "p", "n", "g">>

\* reference targets as written in a document
RefUpAX == DotDot \o Slash \o A \o Slash \o XPng
RefRootedLoop == Slash \o A \o Slash \o DotDot \o Slash \o A \o Slash \o XPng
RefBareAY == A \o Slash \o YPng
RefBareZ == ZBackslash
RefProtoRel == Slash \o Slash \o A \o Slash \o XPng
RefOutside == Slash \o DotDot \o Slash \o XPng
RefUpOutside == DotDot \o Slash \o DotDot \o Slash \o XPng
RefMissing == <<".">> \o Slash \o NPng

\* the targets written in markdown image syntax, in <img> tags and in frontmatter
MarkdownTargets ==
    {RefUpAX, RefRootedLoop, RefBareAY, RefBareZ, RefProtoRel, RefOutside, RefUpOutside,
     RefMissing}
HtmlTargets == {RefBareAY}
FeaturedTargets == {RefUpAX, RefProtoRel}

\* an image reference in a body: markdown syntax ![alt](target) or <img src="target">
Tokens ==
    [syntax : {"markdown"}, target : MarkdownTargets]
    \cup [syntax : {"html"}, target : HtmlTargets]

\* values of the frontmatter key 'slug' that the documents of the tree carry
SlugValues == {<<"q">>}

\* frontmatter of a document: a mapping from some keys to text
Frontmatters ==
    {f \in UNION {[ks -> SlugValues \cup FeaturedTargets] :
                      ks \in SUBSET {"slug", "featured_image"}} :
        /\ "slug" \in DOMAIN f => f["slug"] \in SlugValues
        /\ "featured_image" \in DOMAIN f => f["featured_image"] \in FeaturedTargets}

Bodies(n) == [1..n -> Tokens]

\* the documents of size n: frontmatter entries plus body references
DocsWith(n) ==
    UNION {{[fm |-> f, body |-> b] : b \in Bodies(n - Cardinality(DOMAIN f))} :
              f \in {g \in Frontmatters : Cardinality(DOMAIN g) <= n}}

(***************************************************************************)
(* Python dicts: insertion-ordered association lists                       *)
(***************************************************************************)
DictKeys(d) == {d[i].key : i \in 1..Len(d)}
DictHas(d, k) == \E i \in 1..Len(d) : d[i].key = k
DictIndex(d, k) == CHOOSE i \in 1..Len(d) : d[i].key = k
DictGet(d, k) == d[DictIndex(d, k)].val
DictValues(d) == {d[i].val : i \in 1..Len(d)}

\* d[k] = v
DictSet(d, k, v) ==
    IF DictHas(d, k) THEN [d EXCEPT ![DictIndex(d, k)].val = v]
    ELSE Append(d, [key |-> k, val |-> v])

\* defaultdict(list): d[k].append(v)
DictAppend(d, k, v) ==
    IF DictHas(d, k) THEN [d EXCEPT ![DictIndex(d, k)].val = Append(@, v)]
    ELSE Append(d, [key |-> k, val |-> <<v>>])

(***************************************************************************)
(* State                                                                   *)
(***************************************************************************)
VARIABLES
    input_dir,         \* ImageProcessor.input_dir
    docs,              \* the markdown documents of the tree, by path under the root
    image_usage,       \* image path -> documents using it, one entry per reference
    file_images,       \* document -> images referenced in its body
    featured_images,   \* document -> its featured image
    image_references,  \* image path -> (document, reference type, target as written)
    scans,             \* how many times analyze_image_usage has run
    last,              \* the last method called and its outcome
    dry_run,           \* migrate: the --dry-run flag
    files,             \* migrate: the markdown files under --input-path and what they hold
    pc,                \* migrate: the position of the command in its code
    file_index,        \* migrate: how many files the loop has gone through
    wp_calls,          \* migrate: the calls made on the WordPress client, in order
    created_count,     \* migrate: posts created
    updated_count,     \* migrate: posts updated
    error_count        \* migrate: files whose processing raised

image_vars ==
    <<input_dir, docs, image_usage, file_images, featured_images, image_references, scans>>

cli_vars ==
    <<dry_run, files, pc, file_index, wp_calls, created_count, updated_count, error_count>>

vars == <<image_vars, last, cli_vars>>

index == <<image_usage, file_images, featured_images, image_references>>

\* the outcome of a call: the value it returns, or the exception it raises
None == [none |-> TRUE]
Return(v) == [ret |-> v]
Raise(e) == e
Raised(outcome) == outcome = ValueError

(***************************************************************************)
(* Content Scanner                                                         *)
(***************************************************************************)
\* os.walk(input_dir): every file below the root, in the order the walk lists them
WalkListing ==
    <<(<<A, PMd>>), (<<A, XPng>>), (<<A, YPng>>), (<<B, PMd>>), (<<B, ZBackslash>>)>>

UnderInputDir(rel) == [abs |-> input_dir.abs, parts |-> input_dir.parts \o rel]

EndsWith(s, suf) == Len(s) >= Len(suf) /\ SubSeq(s, Len(s) - Len(suf) + 1, Len(s)) = suf

\* Path(root) / file for each listed file
UnderEach(rels) == [i \in 1..Len(rels) |-> UnderInputDir(rels[i])]

find_markdown_files ==
    LET IsMd(rel) == EndsWith(rel[Len(rel)], <<".", "m", "d">>)
    IN UnderEach(SelectSeq(WalkListing, IsMd))

image_extensions ==
    {<<".", "j", "p", "g">>, <<".", "j", "p", "e", "g">>, <<".", "p", "n", "g">>,
     <<".", "g", "i", "f">>, <<".", "w", "e", "b", "p">>, <<".", "s", "v", "g">>,
     <<".", "b", "m", "p">>}

find_image_files ==
    LET IsImage(rel) ==
            MapLower(PathSuffix([abs |-> FALSE, parts |-> rel])) \in image_extensions
    IN UnderEach(SelectSeq(WalkListing, IsImage))

\* a document that frontmatter.load rejects (malformed frontmatter, bad
\* encoding): it has no metadata and no content, only the text of the file
Unparseable(raw) == [raw |-> raw]
Parses(doc) == "fm" \in DOMAIN doc

\* an extraction that falls back to the text of the file when parsing fails
extract_frontmatter_MutRawBody(file_path) ==
    LET rel == RelativeTo(Resolve(file_path), Resolve(input_dir))
    IN IF rel # ValueError /\ rel.parts \in DOMAIN docs
       THEN IF Parses(docs[rel.parts])
            THEN <<docs[rel.parts].fm, docs[rel.parts].body>>
            ELSE <<(<<>>), docs[rel.parts].raw>>
       ELSE <<(<<>>), (<<>>)>>

\* frontmatter.load on a document of the tree; a file that cannot be read or
\* parsed is logged and yields ({}, "")
extract_frontmatter_and_content(file_path) ==
    LET rel == RelativeTo(Resolve(file_path), Resolve(input_dir))
    IN IF rel # ValueError /\ rel.parts \in DOMAIN docs /\ Parses(docs[rel.parts])
       THEN <<docs[rel.parts].fm, docs[rel.parts].body>>
       ELSE <<(<<>>), (<<>>)>>

_is_external_url(path) ==
    \/ StartsWith(path, <<"h", "t", "t", "p", ":", "/", "/">>)
    \/ StartsWith(path, <<"h", "t", "t", "p", "s", ":", "/", "/">>)
    \/ StartsWith(path, <<"/", "/">>)
    \/ StartsWith(path, <<"d", "a", "t", "a", ":">>)

\* the matches of one pattern, in document order, external targets dropped
RECURSIVE MatchesOf(_, _)
MatchesOf(content, syntax) ==
    IF content = <<>> THEN <<>>
    ELSE (IF Head(content).syntax = syntax /\ ~_is_external_url(Head(content).target)
          THEN <<(<<Head(content).target, syntax>>)>> ELSE <<>>)
         \o MatchesOf(Tail(content), syntax)

\* all markdown-syntax matches first, then all <img> matches
find_images_in_content(content) == MatchesOf(content, "markdown") \o MatchesOf(content, "html")

(***************************************************************************)
(* Path Resolver                                                           *)
(***************************************************************************)
\* a resolution that tries the input root before the directory of the document
resolve_image_path_MutRootFirst(img_path, markdown_file) ==
    LET beside == Resolve(JoinPath(Parent(markdown_file), img_path))
        rooted == JoinPath(input_dir, LStrip(img_path, {"/"}))
        resolved ==
            IF StartsWith(img_path, <<"/">>) THEN rooted
            ELSE IF StartsWith(img_path, <<".", "/">>) \/ StartsWith(img_path, <<".", ".", "/">>)
            THEN beside
            ELSE IF Exists(rooted) THEN rooted ELSE beside
    IN IF Exists(resolved) THEN resolved ELSE None

resolve_image_path(img_path, markdown_file) ==
    LET beside == Resolve(JoinPath(Parent(markdown_file), img_path))
        resolved ==
            IF StartsWith(img_path, <<"/">>)
            THEN JoinPath(input_dir, LStrip(img_path, {"/"}))
            ELSE IF StartsWith(img_path, <<".", "/">>) \/ StartsWith(img_path, <<".", ".", "/">>)
            THEN beside
            ELSE IF ~Exists(beside) THEN JoinPath(input_dir, img_path) ELSE beside
    IN IF Exists(resolved) THEN resolved ELSE None

(***************************************************************************)
(* Usage Index: ImageProcessor.analyze_image_usage                         *)
(***************************************************************************)
FeaturedKeys == <<"featured_image", "image", "cover_image", "hero_image">>

\* a choice of the featured key that lets the last matching key win
RECURSIVE FirstFeaturedMutLastWins(_, _)
FirstFeaturedMutLastWins(fm, keys) ==
    IF keys = <<>> THEN <<>>
    ELSE IF keys[Len(keys)] \in DOMAIN fm /\ fm[keys[Len(keys)]] # <<>>
    THEN fm[keys[Len(keys)]]
    ELSE FirstFeaturedMutLastWins(fm, SubSeq(keys, 1, Len(keys) - 1))

\* the value of the first key that is present and truthy; empty (falsy) when none is
RECURSIVE FirstFeatured(_, _)
FirstFeatured(fm, keys) ==
    IF keys = <<>> THEN <<>>
    ELSE IF Head(keys) \in DOMAIN fm /\ fm[Head(keys)] # <<>> THEN fm[Head(keys)]
    ELSE FirstFeatured(fm, Tail(keys))

\* a featured scan that fills the featured index but not the usage index
ScanFeaturedMutNoUsage(ix, md_file, fm) ==
    LET featured_img == FirstFeatured(fm, FeaturedKeys)
        resolved_path == resolve_image_path(featured_img, md_file)
    IN IF featured_img # <<>> /\ resolved_path # None
       THEN [ix EXCEPT
               !.featured_images = DictSet(@, md_file, resolved_path),
               !.image_references =
                   DictAppend(@, resolved_path, <<md_file, "featured", featured_img>>)]
       ELSE ix

ScanFeatured(ix, md_file, fm) ==
    LET featured_img == FirstFeatured(fm, FeaturedKeys)
        resolved_path == resolve_image_path(featured_img, md_file)
    IN IF featured_img # <<>> /\ resolved_path # None
       THEN [ix EXCEPT
               !.featured_images = DictSet(@, md_file, resolved_path),
               !.image_usage = DictAppend(@, resolved_path, md_file),
               !.image_references =
                   DictAppend(@, resolved_path, <<md_file, "featured", featured_img>>)]
       ELSE ix

RECURSIVE ScanContent(_, _, _)
ScanContent(ix, md_file, content_images) ==
    IF content_images = <<>> THEN ix
    ELSE LET img_path == Head(content_images)[1]
             ref_type == Head(content_images)[2]
             resolved_path == resolve_image_path(img_path, md_file)
             next ==
                 IF resolved_path # None
                 THEN [ix EXCEPT
                         !.image_usage = DictAppend(@, resolved_path, md_file),
                         !.file_images = DictAppend(@, md_file, resolved_path),
                         !.image_references =
                             DictAppend(@, resolved_path, <<md_file, ref_type, img_path>>)]
                 ELSE ix
         IN ScanContent(next, md_file, Tail(content_images))

\* a scan that gives up at the first document that yields nothing
RECURSIVE ScanFilesMutStopOnFailure(_, _)
ScanFilesMutStopOnFailure(ix, md_files) ==
    IF md_files = <<>> THEN ix
    ELSE LET md_file == Head(md_files)
             parsed == extract_frontmatter_and_content(md_file)
             withFeatured == ScanFeatured(ix, md_file, parsed[1])
         IN IF parsed = <<(<<>>), (<<>>)>> THEN ix
            ELSE ScanFilesMutStopOnFailure(
                     ScanContent(withFeatured, md_file, find_images_in_content(parsed[2])),
                     Tail(md_files))

RECURSIVE ScanFiles(_, _)
ScanFiles(ix, md_files) ==
    IF md_files = <<>> THEN ix
    ELSE LET md_file == Head(md_files)
             parsed == extract_frontmatter_and_content(md_file)
             withFeatured == ScanFeatured(ix, md_file, parsed[1])
         IN ScanFiles(ScanContent(withFeatured, md_file, find_images_in_content(parsed[2])),
                      Tail(md_files))

Index ==
    [image_usage |-> image_usage, file_images |-> file_images,
     featured_images |-> featured_images, image_references |-> image_references]

\* the indices after one more scan of the tree
Analyzed(ix) == ScanFiles(ix, find_markdown_files)

(***************************************************************************)
(* Filename Generator                                                      *)
(***************************************************************************)
\* re.sub(r'^\d{4}-\d{2}-\d{2}-', '', filename)
StripDatePrefix(filename) ==
    IF /\ Len(filename) >= 11
       /\ \A i \in {1, 2, 3, 4, 6, 7, 9, 10} : filename[i] \in Digits
       /\ \A i \in {5, 8, 11} : filename[i] = "-"
    THEN SubSeq(filename, 12, Len(filename))
    ELSE filename

\* a slug derivation that prefers the title to the slug field
_extract_slug_MutTitleFirst(md_file) ==
    LET frontmatter == extract_frontmatter_and_content(md_file)[1]
    IN IF "title" \in DOMAIN frontmatter THEN _slugify(frontmatter["title"])
       ELSE IF "slug" \in DOMAIN frontmatter THEN _slugify(frontmatter["slug"])
       ELSE _slugify(StripDatePrefix(PathStem(md_file)))

_extract_slug_from_file(md_file) ==
    LET frontmatter == extract_frontmatter_and_content(md_file)[1]
    IN IF "slug" \in DOMAIN frontmatter THEN _slugify(frontmatter["slug"])
       ELSE IF "title" \in DOMAIN frontmatter THEN _slugify(frontmatter["title"])
       ELSE _slugify(StripDatePrefix(PathStem(md_file)))

\* a naming that uses the first using document whatever the number of users
generate_seo_filename_MutFirstDoc(original_path, usage_context, is_featured, sequence) ==
    LET ext == MapLower(PathSuffix(original_path))
        slug == _extract_slug_from_file(usage_context[1])
    IN IF is_featured THEN slug \o <<"-", "f", "e", "a", "t", "u", "r", "e">> \o ext
       ELSE IF sequence > 0 THEN slug \o <<"-">> \o Format02d(sequence) \o ext
       ELSE slug \o ext

\* a naming that looks at the sequence number before the featured flag
generate_seo_filename_MutSequenceFirst(original_path, usage_context, is_featured, sequence) ==
    LET ext == MapLower(PathSuffix(original_path))
    IN IF Len(usage_context) = 1
       THEN LET slug == _extract_slug_from_file(usage_context[1])
            IN IF sequence > 0 THEN slug \o <<"-">> \o Format02d(sequence) \o ext
               ELSE IF is_featured
               THEN slug \o <<"-", "f", "e", "a", "t", "u", "r", "e">> \o ext
               ELSE slug \o ext
       ELSE _slugify(PathStem(original_path)) \o ext

generate_seo_filename(original_path, usage_context, is_featured, sequence) ==
    LET ext == MapLower(PathSuffix(original_path))
    IN IF Len(usage_context) = 1
       THEN LET slug == _extract_slug_from_file(usage_context[1])
            IN IF is_featured THEN slug \o <<"-", "f", "e", "a", "t", "u", "r", "e">> \o ext
               ELSE IF sequence > 0 THEN slug \o <<"-">> \o Format02d(sequence) \o ext
               ELSE slug \o ext
       ELSE _slugify(PathStem(original_path)) \o ext

(***************************************************************************)
(* Rename Map Builder: ImageProcessor.create_rename_dictionary             *)
(***************************************************************************)
\* img_path in self.featured_images.values()
IsFeatured(ix, img_path) == img_path \in DictValues(ix.featured_images)

\* the sequence counting applies to images with one usage entry that are not featured
Sequenced(ix, i) == Len(ix.image_usage[i].val) = 1 /\ ~IsFeatured(ix, ix.image_usage[i].key)

\* image_counters[md_file] after the first i entries of image_usage
RECURSIVE CounterAfter(_, _, _)
CounterAfter(ix, i, md_file) ==
    IF i = 0 THEN 0
    ELSE CounterAfter(ix, i - 1, md_file)
         + (IF Sequenced(ix, i) /\ ix.image_usage[i].val[1] = md_file THEN 1 ELSE 0)

\* a sequence numbering that starts the suffixes one too low
SequenceOfMutOffByOne(ix, i) ==
    IF Sequenced(ix, i)
    THEN LET n == CounterAfter(ix, i, ix.image_usage[i].val[1])
         IN IF n > 1 THEN n - 1 ELSE 0
    ELSE 0

\* the sequence argument passed for the i-th entry of image_usage
SequenceOf(ix, i) ==
    IF Sequenced(ix, i)
    THEN LET n == CounterAfter(ix, i, ix.image_usage[i].val[1])
         IN IF n > 1 THEN n ELSE 0
    ELSE 0

NewFilename(ix, i) ==
    generate_seo_filename(ix.image_usage[i].key, ix.image_usage[i].val,
                          IsFeatured(ix, ix.image_usage[i].key), SequenceOf(ix, i))

\* the loop over image_usage.items(), from entry i on; ValueError when relative_to raises
RECURSIVE RenameFrom(_, _, _)
RenameFrom(ix, i, rename_dict) ==
    IF i > Len(ix.image_usage) THEN Return(rename_dict)
    ELSE LET relative_original == RelativeTo(ix.image_usage[i].key, input_dir)
         IN IF relative_original = ValueError THEN Raise(ValueError)
            ELSE RenameFrom(ix, i + 1,
                            DictSet(rename_dict, PathStr(relative_original), NewFilename(ix, i)))

RenameDict(ix) == RenameFrom(ix, 1, <<>>)

(***************************************************************************)
(* Orphan / Report Generator                                               *)
(***************************************************************************)
\* an orphan search that forgets to leave out the used images
OrphanedMutKeepUsed(ix) ==
    LET all_images == {find_image_files[i] : i \in 1..Len(find_image_files)}
    IN Return({PathStr(RelativeTo(img, input_dir)) : img \in all_images})

\* find_orphaned_images: the list is built from a set, its order is arbitrary
Orphaned(ix) ==
    LET all_images == {find_image_files[i] : i \in 1..Len(find_image_files)}
        used_images == DictKeys(ix.image_usage)
    IN Return({PathStr(RelativeTo(img, input_dir)) : img \in all_images \ used_images})

RelStrs(paths) == [i \in 1..Len(paths) |-> PathStr(RelativeTo(paths[i], input_dir))]

\* create_usage_report; ValueError when a relative_to raises
UsageReport(ix) ==
    LET iu == ix.image_usage
        rel(i) == PathStr(RelativeTo(iu[i].key, input_dir))
        Picked(Test(_)) == SelectSeq([i \in 1..Len(iu) |-> i], Test)
        Multi(i) == Len(iu[i].val) > 1
        Single(i) == ~Multi(i)
    IN IF \E i \in 1..Len(iu) : RelativeTo(iu[i].key, input_dir) = ValueError
       THEN Raise(ValueError)
       ELSE Return(
            [total_images |-> Len(iu),
             total_markdown_files |->
                 Cardinality(UNION {{iu[i].val[j] : j \in 1..Len(iu[i].val)} : i \in 1..Len(iu)}),
             featured_images |-> Len(ix.featured_images),
             usage_breakdown |->
                 [i \in 1..Len(iu) |->
                     [key |-> rel(i),
                      val |-> [usage_count |-> Len(iu[i].val),
                               used_in |-> RelStrs(iu[i].val),
                               is_featured |-> IsFeatured(ix, iu[i].key)]]],
             multi_use_images |-> [k \in 1..Len(Picked(Multi)) |-> rel(Picked(Multi)[k])],
             single_use_images |-> [k \in 1..Len(Picked(Single)) |-> rel(Picked(Single)[k])]])

\* what process() returns on the indices ix, or the exception it raises
Outputs(ix) ==
    LET rename_dict == RenameDict(ix)
        usage_report == UsageReport(ix)
    IN IF Raised(rename_dict) \/ Raised(usage_report) THEN Raise(ValueError)
       ELSE Return([rename_dict |-> rename_dict.ret,
                    usage_report |-> usage_report.ret,
                    orphaned_images |-> Orphaned(ix).ret])

(***************************************************************************)
(* Operations of an ImageProcessor                                         *)
(***************************************************************************)
SetIndex(ix) ==
    /\ image_usage' = ix.image_usage
    /\ file_images' = ix.file_images
    /\ featured_images' = ix.featured_images
    /\ image_references' = ix.image_references

\* the migrate command has not been invoked
NoCommand ==
    /\ dry_run = FALSE
    /\ files = <<>>
    /\ pc = "idle"
    /\ file_index = 0
    /\ wp_calls = <<>>
    /\ created_count = 0
    /\ updated_count = 0
    /\ error_count = 0

\* ImageProcessor(input_dir, output_dir) over some input tree
Init ==
    /\ input_dir \in InputDirs
    /\ \E n1 \in 0..MaxEntries : \E n2 \in 0..(MaxEntries - n1) :
          docs \in {(<<A, PMd>> :> d1) @@ (<<B, PMd>> :> d2) :
                       d1 \in DocsWith(n1), d2 \in DocsWith(n2)}
    /\ image_usage = <<>>
    /\ file_images = <<>>
    /\ featured_images = <<>>
    /\ image_references = <<>>
    /\ scans = 0
    /\ last = [op |-> "__init__", out |-> Return(None)]
    /\ NoCommand

analyze_image_usage ==
    /\ scans < MaxScans
    /\ SetIndex(Analyzed(Index))
    /\ scans' = scans + 1
    /\ last' = [op |-> "analyze_image_usage", out |-> Return(None)]
    /\ UNCHANGED <<input_dir, docs>>
    /\ UNCHANGED cli_vars

\* a map builder that takes the entries out of the usage index as it names them
create_rename_dictionary_MutDrain ==
    /\ last' = [op |-> "create_rename_dictionary", out |-> RenameDict(Index)]
    /\ image_usage' = <<>>
    /\ UNCHANGED <<input_dir, docs, file_images, featured_images, image_references, scans>>
    /\ UNCHANGED cli_vars

create_rename_dictionary ==
    /\ last' = [op |-> "create_rename_dictionary", out |-> RenameDict(Index)]
    /\ UNCHANGED <<input_dir, docs, index, scans>>
    /\ UNCHANGED cli_vars

find_orphaned_images ==
    /\ last' = [op |-> "find_orphaned_images", out |-> Orphaned(Index)]
    /\ UNCHANGED <<input_dir, docs, index, scans>>
    /\ UNCHANGED cli_vars

create_usage_report ==
    /\ last' = [op |-> "create_usage_report", out |-> UsageReport(Index)]
    /\ UNCHANGED <<input_dir, docs, index, scans>>
    /\ UNCHANGED cli_vars

\* analyze, then build the three outputs from the indices the scan left
process ==
    /\ scans < MaxScans
    /\ LET ix == Analyzed(Index)
       IN /\ SetIndex(ix)
          /\ last' = [op |-> "process", out |-> Outputs(ix)]
    /\ scans' = scans + 1
    /\ UNCHANGED <<input_dir, docs>>
    /\ UNCHANGED cli_vars

Next ==
    \/ analyze_image_usage
    \/ create_rename_dictionary
    \/ find_orphaned_images
    \/ create_usage_report
    \/ process

Spec == Init /\ [][Next]_vars

(***************************************************************************)
(* Properties                                                              *)
(***************************************************************************)
\* a rename map has just been returned, by create_rename_dictionary or by process
HasRenameMap == last.op \in {"create_rename_dictionary", "process"} /\ ~Raised(last.out)

RenameMap == IF last.op = "process" THEN last.out.ret.rename_dict ELSE last.out.ret

\* the documents an entry of image_usage names, without multiplicity
UsingDocs(i) == {image_usage[i].val[j] : j \in 1..Len(image_usage[i].val)}

\* the key under which the rename map records the i-th entry of image_usage
RenameKey(i) == PathStr(RelativeTo(image_usage[i].key, input_dir))

\* C1: no two different original paths of the rename map are mapped to the same
\* new filename.
C1_RenameInjective ==
    HasRenameMap =>
        \A i, j \in 1..Len(RenameMap) : i # j => RenameMap[i].val # RenameMap[j].val

\* C2: every value of the rename map is a non-empty filename that contains
\* neither '/' nor '\'.
C2_BareFilenames ==
    HasRenameMap =>
        \A i \in 1..Len(RenameMap) :
            /\ RenameMap[i].val # <<>>
            /\ \A n \in 1..Len(RenameMap[i].val) : RenameMap[i].val[n] \notin {"/", "\\"}

\* C3: every key of the rename map is the path, relative to the input root, of
\* a file that exists under the scanned root.
C3_KeysUnderRoot ==
    HasRenameMap =>
        \A i \in 1..Len(RenameMap) :
            LET file == Denotes(JoinPath(input_dir, RenameMap[i].key))
            IN /\ file \in Files
               /\ StartsWith(file, Resolve(input_dir).parts)

\* C4: in the outputs of one process() run no path string is both an orphaned
\* image and a key of the rename map.
C4_OrphansDisjointFromKeys ==
    (last.op = "process" /\ ~Raised(last.out)) =>
        last.out.ret.orphaned_images \cap DictKeys(last.out.ret.rename_dict) = {}

C4_Witness ==
    /\ last.op = "process"
    /\ ~Raised(last.out)
    /\ last.out.ret.orphaned_images # {}
    /\ last.out.ret.rename_dict # <<>>

\* C5: a process() call that follows a process() call on the same instance
\* returns the same rename map, orphan list and usage report.
C5_ProcessIdempotent ==
    [][(last.op = "process" /\ last'.op = "process") => last'.out = last.out]_vars

\* C6: two different keys of image_usage never denote the same file.
C6_OneKeyPerFile ==
    \A i, j \in 1..Len(image_usage) :
        i # j => Denotes(image_usage[i].key) # Denotes(image_usage[j].key)

\* C7: no reference whose target starts with 'http://', 'https://', '//' or
\* 'data:' is recorded in the indices.
C7_NoExternalEntry ==
    \A i \in 1..Len(image_references) :
        \A j \in 1..Len(image_references[i].val) :
            ~_is_external_url(image_references[i].val[j][3])

\* C8: find_orphaned_images lists exactly the image files found under the root
\* that no indexed reference resolves to, a file being identified by what the
\* path denotes.
C8_OrphansExact ==
    last.op = "find_orphaned_images" =>
        LET referenced == {Denotes(image_usage[i].key) : i \in 1..Len(image_usage)}
            found == {find_image_files[i] : i \in 1..Len(find_image_files)}
        IN last.out.ret =
               {PathStr(RelativeTo(img, input_dir)) :
                   img \in {f \in found : Denotes(f) \notin referenced}}

\* the names generate_seo_filename gives to an image of one document
SingleUseNames(i, md_file) ==
    {generate_seo_filename(image_usage[i].key, <<md_file>>, featured, sequence) :
        featured \in BOOLEAN, sequence \in 0..Len(image_usage)}

\* C9: an image all of whose references come from one document is named from
\* that document's slug, however many times the document references it.
C9_OneDocumentIsSingleUse ==
    HasRenameMap =>
        \A i \in 1..Len(image_usage) :
            \A md_file \in UsingDocs(i) :
                UsingDocs(i) = {md_file} =>
                    DictGet(RenameMap, RenameKey(i)) \in SingleUseNames(i, md_file)

\* the entries of image_usage with one usage, by md_file, that are not featured,
\* in insertion order
RECURSIVE SingleUseOf(_, _)
SingleUseOf(md_file, n) ==
    IF n = 0 THEN <<>>
    ELSE SingleUseOf(md_file, n - 1)
         \o (IF /\ image_usage[n].val = <<md_file>>
                /\ image_usage[n].key \notin DictValues(featured_images)
             THEN <<n>> ELSE <<>>)

AllDocs == {find_markdown_files[i] : i \in 1..Len(find_markdown_files)}

MaxSequence == 11
\* the largest number of entries of a usage context
MaxContext == 2
\* the largest length of a text given to _slugify
MaxText == 3
\* the largest number of path components of a reference given to resolve_image_path
MaxDepth == 3

\* names of markdown documents with and without a date prefix
DatedPMd == <<"2", "0", "2", "3", "-", "0", "1", "-", "0", "1", "-">> \o PMd
DateOnlyMd == <<"2", "0", "2", "3", "-", "0", "1", "-", "0", "1", "-", ".", "m", "d">>
ShortDatePMd == <<"2", "0", "2", "3", "-", "1", "-", "0", "1", "-">> \o PMd
\* an image whose stem needs cleaning and whose extension is in upper case
TmUpperPng == <<"T", " ", "m", ".", "P", "N", "G">>

NamingMdRel == {<<A, DatedPMd>>, <<B, PMd>>, <<A, DateOnlyMd>>, <<B, ShortDatePMd>>}
NamingImageRel == {<<A, XPng>>, <<A, TmUpperPng>>}

\* the frontmatter of a document that is named: 'slug' and 'title' present or not
NamingFrontmatters ==
    {f \in UNION {[ks -> {<<"q">>, <<>>, <<"T", " ", "m">>}] :
                      ks \in SUBSET {"slug", "title"}} :
        /\ "slug" \in DOMAIN f => f["slug"] \in {<<"q">>, <<>>}
        /\ "title" \in DOMAIN f => f["title"] = <<"T", " ", "m">>}

\* usage contexts: lists of documents, as image_usage holds them
NamingContexts ==
    UNION {[1..n -> {UnderInputDir(rel) : rel \in NamingMdRel}] : n \in 1..MaxContext}

\* the texts given to _slugify: at most MaxText characters
SlugChars == {"a", "T", "1", " ", "_", "-", "!", "U+00E9", "U+2122"}
SlugTexts == UNION {[1..n -> SlugChars] : n \in 0..MaxText}

\* the references given to resolve_image_path: a prefix, then path components
ResolvePrefixes == {<<>>, Slash, Slash \o Slash, <<".">> \o Slash, DotDot \o Slash}
ResolveTargets ==
    {prefix \o Join(components, "/") :
        prefix \in ResolvePrefixes,
        components \in UNION {[1..n -> {A, B, DotDot, XPng, NPng}] : n \in 1..MaxDepth}}

\* an ImageProcessor over a tree of four documents, three of them without frontmatter
InitCalls ==
    /\ input_dir \in InputDirs
    /\ docs \in {(<<A, DatedPMd>> :> [fm |-> f, body |-> <<>>])
                 @@ (<<B, PMd>> :> [fm |-> <<>>, body |-> <<>>])
                 @@ (<<A, DateOnlyMd>> :> [fm |-> <<>>, body |-> <<>>])
                 @@ (<<B, ShortDatePMd>> :> [fm |-> <<>>, body |-> <<>>]) :
                    f \in NamingFrontmatters}
    /\ image_usage = <<>>
    /\ file_images = <<>>
    /\ featured_images = <<>>
    /\ image_references = <<>>
    /\ scans = 0
    /\ last = [op |-> "__init__", out |-> Return(None)]
    /\ NoCommand

\* the functions below read the documents and nothing else: one call on a new
\* ImageProcessor shows everything a call can return
call_generate_seo_filename ==
    /\ last.op = "__init__"
    /\ \E rel \in NamingImageRel, usage_context \in NamingContexts,
          is_featured \in BOOLEAN, sequence \in 0..MaxSequence :
          last' = [op |-> "generate_seo_filename",
                   args |-> <<UnderInputDir(rel), usage_context, is_featured, sequence>>,
                   out |-> Return(generate_seo_filename(UnderInputDir(rel), usage_context,
                                                        is_featured, sequence))]
    /\ UNCHANGED <<image_vars, cli_vars>>

call_extract_slug_from_file ==
    /\ last.op = "__init__"
    /\ \E rel \in NamingMdRel :
          last' = [op |-> "_extract_slug_from_file",
                   args |-> <<UnderInputDir(rel)>>,
                   out |-> Return(_extract_slug_from_file(UnderInputDir(rel)))]
    /\ UNCHANGED <<image_vars, cli_vars>>

call_slugify ==
    /\ last.op = "__init__"
    /\ \E text \in SlugTexts :
          last' = [op |-> "_slugify", args |-> <<text>>, out |-> Return(_slugify(text))]
    /\ UNCHANGED <<image_vars, cli_vars>>

call_resolve_image_path ==
    /\ last.op = "__init__"
    /\ \E img_path \in ResolveTargets, rel \in MdRel :
          last' = [op |-> "resolve_image_path",
                   args |-> <<img_path, UnderInputDir(rel)>>,
                   out |-> Return(resolve_image_path(img_path, UnderInputDir(rel)))]
    /\ UNCHANGED <<image_vars, cli_vars>>

NextCalls ==
    \/ call_generate_seo_filename
    \/ call_extract_slug_from_file
    \/ call_slugify
    \/ call_resolve_image_path

SpecCalls == InitCalls /\ [][NextCalls]_vars

\* the documents a usage context names, without multiplicity
ContextDocs(usage_context) == {usage_context[i] : i \in 1..Len(usage_context)}

Reverse(seq) == [i \in 1..Len(seq) |-> seq[Len(seq) + 1 - i]]

\* C11: an image used by two or more documents is named slugify(stem of the
\* original file) followed by the lowercased original extension, and the name
\* is the same when the using documents are listed in another order.
C11_MultiUseNaming ==
    last.op = "generate_seo_filename" =>
        LET original_path == last.args[1]
            usage_context == last.args[2]
        IN Cardinality(ContextDocs(usage_context)) >= 2 =>
               /\ last.out.ret =
                      _slugify(PathStem(original_path)) \o MapLower(PathSuffix(original_path))
               /\ generate_seo_filename(original_path, Reverse(usage_context),
                                        last.args[3], last.args[4]) = last.out.ret

C11_Witness ==
    /\ last.op = "generate_seo_filename"
    /\ PathName(last.args[1]) = TmUpperPng
    /\ last.args[2] = <<UnderInputDir(<<B, PMd>>), UnderInputDir(<<A, DatedPMd>>)>>
    /\ last.args[3]
    /\ last.out.ret = <<"t", "-", "m", ".", "p", "n", "g">>

\* f"{n:02d}" for n below 100, digit by digit
TwoDigits(n) == <<DigitChar(n \div 10), DigitChar(n % 10)>>

\* C12: for a usage context of exactly one document with derived slug s and an
\* original file with extension e, generate_seo_filename returns
\* s-feature+lower(e) when is_featured, otherwise s-NN+lower(e) with NN the
\* two-digit sequence number when sequence > 0, otherwise s+lower(e).
C12_SingleDocumentNaming ==
    (last.op = "generate_seo_filename" /\ Len(last.args[2]) = 1) =>
        LET s == _extract_slug_from_file(last.args[2][1])
            e == MapLower(PathSuffix(last.args[1]))
            sequence == last.args[4]
        IN last.out.ret =
               IF last.args[3] THEN s \o <<"-", "f", "e", "a", "t", "u", "r", "e">> \o e
               ELSE IF sequence > 0 THEN s \o <<"-">> \o TwoDigits(sequence) \o e
               ELSE s \o e

C12_Witness ==
    /\ last.op = "generate_seo_filename"
    /\ Len(last.args[2]) = 1
    /\ last.args[3]
    /\ last.args[4] = 10
    /\ PathName(last.args[1]) = TmUpperPng

\* the stem of each document of the tree with a leading YYYY-MM-DD- removed
UndatedStem(name) ==
    CASE name = DatedPMd -> <<"p">>
      [] name = PMd -> <<"p">>
      [] name = DateOnlyMd -> <<>>
      [] name = ShortDatePMd -> <<"2", "0", "2", "3", "-", "1", "-", "0", "1", "-", "p">>

\* C13: the slug of a document comes from its frontmatter 'slug' when it has
\* one, otherwise from its slugified 'title', otherwise from its slugified file
\* stem without a leading date prefix.
C13_SlugPriority ==
    last.op = "_extract_slug_from_file" =>
        LET md_file == last.args[1]
            fm == docs[RelativeTo(md_file, input_dir).parts].fm
            source ==
                IF "slug" \in DOMAIN fm THEN fm["slug"]
                ELSE IF "title" \in DOMAIN fm THEN fm["title"]
                ELSE UndatedStem(PathName(md_file))
        IN last.out.ret = _slugify(source)

C13_Witness ==
    /\ last.op = "_extract_slug_from_file"
    /\ LET fm == docs[RelativeTo(last.args[1], input_dir).parts].fm
       IN /\ DOMAIN fm = {"slug", "title"}
          /\ last.out.ret = <<"q">>
          /\ _slugify(fm["title"]) = <<"t", "-", "m">>

\* C14: _slugify is idempotent: _slugify(_slugify(x)) = _slugify(x) for every
\* text x.
C14_SlugifyIdempotent ==
    last.op = "_slugify" => _slugify(last.out.ret) = last.out.ret

\* C15: _slugify returns a non-empty slug that is 'untitled' or is made only of
\* lowercase ASCII letters, digits and single hyphens, with no hyphen at either
\* end.
C15_CanonicalSlug ==
    last.op = "_slugify" =>
        LET slug == last.out.ret
        IN /\ slug # <<>>
           /\ \A i \in 1..Len(slug) : slug[i] \in LowerLetters \cup Digits \cup {"-"}
           /\ slug[1] # "-"
           /\ slug[Len(slug)] # "-"
           /\ \A i \in 1..(Len(slug) - 1) : ~(slug[i] = "-" /\ slug[i + 1] = "-")

\* C16: process() completes without raising and returns the rename map, the
\* usage report and the orphan list, whatever the input tree contains.
C16_ProcessCompletes ==
    last.op = "process" =>
        /\ ~Raised(last.out)
        /\ DOMAIN last.out.ret = {"rename_dict", "usage_report", "orphaned_images"}

(***************************************************************************)
(* Content Mapper: python-migration/src/mapper.py                          *)
(***************************************************************************)
\* Python values: None, and text, numbers, booleans and lists as tagged records
Str(text) == [str |-> text]

\* bool(v)
Truthy(v) ==
    CASE "none" \in DOMAIN v -> FALSE
      [] "str" \in DOMAIN v -> v.str # <<>>
      [] "int" \in DOMAIN v -> v.int # 0
      [] "bool" \in DOMAIN v -> v.bool
      [] "list" \in DOMAIN v -> v.list # <<>>

\* a or b
Or(a, b) == IF Truthy(a) THEN a ELSE b

\* {} and {key: value} if the condition holds else {}
EmptyDict == [k \in {} |-> None]
Entry(cond, key, value) == IF cond THEN key :> value ELSE EmptyDict

\* ", ".join(items)
RECURSIVE JoinComma(_)
JoinComma(items) ==
    IF items = <<>> THEN <<>>
    ELSE IF Len(items) = 1 THEN items[1]
    ELSE items[1] \o <<",", " ">> \o JoinComma(Tail(items))

\* the answers of the WordPress site to the lookups of the mapper: a user id
\* or None for each kind of user search, a term id or None for a taxonomy term
Sites ==
    [user_by_email : {None, [int |-> 1]}, user_by_name : {None, [int |-> 2]},
     default_user : {None, [int |-> 3]}, term : {None, [int |-> 4]}]

_resolve_author(author, site) ==
    LET by_email == IF \E i \in 1..Len(author) : author[i] = "@"
                    THEN site.user_by_email ELSE None
    IN IF Truthy(by_email) THEN by_email
       ELSE IF Truthy(site.user_by_name) THEN site.user_by_name
       ELSE site.default_user

_resolve_taxonomy_terms(terms, site) ==
    IF Truthy(site.term) THEN [i \in 1..Len(terms) |-> site.term] ELSE <<>>

\* the type-specific entries of meta
TypeMeta(fm) ==
    IF fm.type = Str(<<"e", "v", "e", "n", "t">>)
    THEN Entry(Truthy(fm.start_date), "start_date", fm.start_date)
         @@ Entry(Truthy(fm.end_date), "end_date", fm.end_date)
         @@ Entry(Truthy(fm.location_name), "location_name", fm.location_name)
         @@ Entry(Truthy(fm.location_address), "location_address", fm.location_address)
         @@ Entry(Truthy(fm.registration_url), "registration_url", fm.registration_url)
         @@ Entry(Truthy(fm.host), "host",
                  IF "str" \in DOMAIN fm.host THEN fm.host ELSE Str(JoinComma(fm.host.list)))
    ELSE IF fm.type = Str(<<"p", "o", "d", "c", "a", "s", "t">>)
    THEN Entry(Truthy(fm.episode_number), "episode_number", fm.episode_number)
         @@ Entry(Truthy(fm.audio_url), "audio_url", fm.audio_url)
         @@ Entry(Truthy(fm.duration), "duration", fm.duration)
         @@ Entry(Truthy(fm.guests), "guests", Str(JoinComma(fm.guests.list)))
         @@ Entry(Truthy(fm.show), "show", fm.show)
    ELSE Entry(fm.type = Str(<<"b", "l", "o", "g">>) /\ fm.featured # None,
               "featured", fm.featured)

\* a meta that records the external id only when the front matter sets one
MetaMutNoFallback(fm) ==
    Entry(Truthy(fm.external_id), "_external_id", fm.external_id) @@ TypeMeta(fm)

\* meta = {}; meta["_external_id"] = ...; the type-specific entries
Meta(fm) == ("_external_id" :> Or(fm.external_id, fm.slug)) @@ TypeMeta(fm)

default_status == <<"d", "r", "a", "f", "t">>

map_to_wordpress(md_file, site) ==
    LET fm == md_file.front_matter
        author_id == _resolve_author(fm.authors.list[1], site)
        tag_ids == _resolve_taxonomy_terms(fm.tags.list, site)
        cat_ids == _resolve_taxonomy_terms(fm.categories.list, site)
        meta == Meta(fm)
    IN ("title" :> fm.title)
       @@ ("content" :> Or(md_file.html, md_file.content))
       @@ ("slug" :> fm.slug)
       @@ ("status" :> Or(fm.status, Str(default_status)))
       @@ ("excerpt" :> Or(Or(fm.subtitle, fm.description), Str(<<>>)))
       @@ Entry(Truthy(fm.date_published), "date", fm.date_published)
       @@ Entry(Truthy(fm.date_updated), "modified", fm.date_updated)
       @@ Entry(Truthy(fm.authors) /\ Truthy(author_id), "author", author_id)
       @@ Entry(Truthy(fm.tags) /\ tag_ids # <<>>, "tags", [list |-> tag_ids])
       @@ Entry(Truthy(fm.categories) /\ cat_ids # <<>>, "categories", [list |-> cat_ids])
       @@ Entry(DOMAIN meta # {}, "meta", meta)

\* ContentMapper.get_post_type
get_post_type(content_type) ==
    CASE content_type = <<"p", "a", "g", "e">> -> <<"p", "a", "g", "e", "s">>
      [] content_type = <<"e", "v", "e", "n", "t">> -> <<"e", "v", "e", "n", "t">>
      [] content_type = <<"p", "o", "d", "c", "a", "s", "t">> ->
             <<"p", "o", "d", "c", "a", "s", "t">>
      [] OTHER -> <<"p", "o", "s", "t", "s">>

\* a FrontMatter with a title and every other field None
BlankFrontMatter ==
    [title |-> Str(<<"t">>), slug |-> None, type |-> None, subtitle |-> None,
     description |-> None, date_published |-> None, date_updated |-> None,
     authors |-> None, status |-> None, featured |-> None, tags |-> None,
     categories |-> None, external_id |-> None, start_date |-> None, end_date |-> None,
     host |-> None, location_name |-> None, location_address |-> None,
     registration_url |-> None, episode_number |-> None, audio_url |-> None,
     duration |-> None, guests |-> None, show |-> None]

ContentTypes ==
    {None, Str(<<"b", "l", "o", "g">>), Str(<<"e", "v", "e", "n", "t">>),
     Str(<<"p", "o", "d", "c", "a", "s", "t">>), Str(<<"p", "a", "g", "e">>)}

\* the front matter given to the mapper
MapperFrontMatters ==
    {[BlankFrontMatter EXCEPT !.slug = slug, !.external_id = external_id, !.type = type,
                              !.featured = featured, !.host = host, !.authors = authors,
                              !.tags = tags, !.episode_number = episode_number] :
        slug \in {None, Str(<<>>), Str(<<"s">>)},
        external_id \in {None, Str(<<>>), Str(<<"e">>)},
        type \in ContentTypes,
        featured \in {None, [bool |-> FALSE]},
        host \in {None, Str(<<"h">>), [list |-> <<(<<"h">>), (<<"g">>)>>]},
        authors \in {None, [list |-> <<(<<"a", "@", "b">>)>>]},
        tags \in {None, [list |-> <<(<<"n">>)>>]},
        episode_number \in {None, [int |-> 7]}}

MarkdownFileOf(fm) ==
    [path |-> <<"/", "p", ".", "m", "d">>, front_matter |-> fm,
     content |-> Str(<<"c">>), html |-> Str(<<"h">>)]

\* no ImageProcessor exists
NoProcessor ==
    /\ input_dir \in InputDirs
    /\ docs = <<>>
    /\ image_usage = <<>>
    /\ file_images = <<>>
    /\ featured_images = <<>>
    /\ image_references = <<>>
    /\ scans = 0

\* ContentMapper(config, wp_client)
InitMapper ==
    /\ NoProcessor
    /\ NoCommand
    /\ last = [op |-> "__init__", out |-> Return(None)]

\* the mapper keeps no state between calls: one call on a new ContentMapper
\* shows everything a call can return
call_map_to_wordpress ==
    /\ last.op = "__init__"
    /\ \E fm \in MapperFrontMatters, site \in Sites :
          last' = [op |-> "map_to_wordpress",
                   args |-> <<MarkdownFileOf(fm), site>>,
                   out |-> Return(map_to_wordpress(MarkdownFileOf(fm), site))]
    /\ UNCHANGED <<image_vars, cli_vars>>

NextMapper == call_map_to_wordpress

SpecMapper == InitMapper /\ [][NextMapper]_vars

\* C17: the post data map_to_wordpress returns always has a 'meta' mapping with
\* the key '_external_id', whose value is the front matter's external_id when
\* that is set and its slug otherwise, for every content type.
C17_ExternalIdAlways ==
    last.op = "map_to_wordpress" =>
        LET fm == last.args[1].front_matter
            post_data == last.out.ret
        IN /\ "meta" \in DOMAIN post_data
           /\ "_external_id" \in DOMAIN post_data["meta"]
           /\ post_data["meta"]["_external_id"] =
                  IF fm.external_id \in {None, Str(<<>>)} THEN fm.slug ELSE fm.external_id

C17_Witness ==
    /\ last.op = "map_to_wordpress"
    /\ last.args[1].front_matter.type = Str(<<"p", "a", "g", "e">>)
    /\ last.args[1].front_matter.external_id = None
    /\ last.out.ret["meta"] = ("_external_id" :> Str(<<"s">>))

(***************************************************************************)
(* The migrate command: src/cli.py                                         *)
(***************************************************************************)
\* the largest number of markdown files under --input-path
MaxFiles == 2

FileNotFoundError == [exc |-> "FileNotFoundError"]
RequestException == [exc |-> "RequestException"]
ParseError == [exc |-> "Exception"]

\* front matter as MarkdownParser._normalize_front_matter leaves it: slug and
\* type are filled in, and external_id is the slug unless the file gives one
NormalizedFrontMatter(slug, external_id, type) ==
    [BlankFrontMatter EXCEPT !.slug = Str(slug), !.type = Str(type),
                             !.external_id = Str(IF external_id = <<>> THEN slug
                                                 ELSE external_id)]

\* what the files under --input-path hold: a file that parse_file rejects, a
\* page with its own external id, a post whose generated slug is empty, and a
\* file whose values map_to_wordpress cannot handle (authors: [42] makes
\* '"@" in author' raise TypeError)
MigrateFiles ==
    {[parsed |-> ParseError, map_raises |-> FALSE],
     [parsed |-> MarkdownFileOf(NormalizedFrontMatter(<<"s">>, <<"e">>, <<"p", "a", "g", "e">>)),
      map_raises |-> FALSE],
     [parsed |-> MarkdownFileOf(NormalizedFrontMatter(<<>>, <<>>, <<"b", "l", "o", "g">>)),
      map_raises |-> FALSE],
     [parsed |-> MarkdownFileOf(NormalizedFrontMatter(<<"s">>, <<>>, <<"b", "l", "o", "g">>)),
      map_raises |-> TRUE]}

\* find_markdown_files(input_path): the files found, or FileNotFoundError
MigrateInputs ==
    {[found |-> fs] : fs \in UNION {[1..n -> MigrateFiles] : n \in 0..MaxFiles}}
    \cup {FileNotFoundError}

\* the answers of the WordPress site while one file is processed: the post
\* found by slug and by meta (or None), and whether the write request fails
SiteAnswers ==
    [by_slug : {None, [id |-> 5]}, by_meta : {None, [id |-> 6]}, write_fails : BOOLEAN,
     site : {[user_by_email |-> None, user_by_name |-> None, default_user |-> [int |-> 3],
              term |-> None]}]

\* one call made on the WordPress client while file k is processed
Call(method, args, result, k) == [method |-> method, args |-> args, result |-> result, file |-> k]

\* a connection test that is made in a dry run too
ConnectionIsTestedMutAlways == TRUE

\* if not dry_run: wp_client.test_connection()
ConnectionIsTested == ~dry_run

\* the lookups for an existing post: by slug, then by '_external_id'
FindExisting(fm, post_data, post_type, answers, k) ==
    LET by_slug == Call("find_post_by_slug", <<fm.slug, post_type>>, answers.by_slug, k)
        external_id ==
            IF "meta" \in DOMAIN post_data /\ "_external_id" \in DOMAIN post_data["meta"]
            THEN post_data["meta"]["_external_id"] ELSE None
        by_meta == Call("find_post_by_meta",
                        <<(<<"_", "e", "x", "t", "e", "r", "n", "a", "l", "_", "i", "d">>),
                          external_id, post_type>>, answers.by_meta, k)
    IN IF answers.by_slug = None /\ Truthy(external_id)
       THEN [calls |-> <<by_slug, by_meta>>, existing |-> answers.by_meta]
       ELSE [calls |-> <<by_slug>>, existing |-> answers.by_slug]

\* a write that creates a post whether or not one was found
WritePostMutAlwaysCreate(existing, post_data, post_type, answers, k) ==
    LET result == IF answers.write_fails THEN RequestException ELSE Return([id |-> 7])
    IN [calls |-> <<Call("create_post", <<post_data, post_type>>, result, k)>>,
        outcome |-> IF answers.write_fails THEN "error" ELSE "created"]

\* update the post that was found, or create one
WritePost(existing, post_data, post_type, answers, k) ==
    IF existing # None
    THEN LET result == IF answers.write_fails THEN RequestException ELSE Return(existing)
         IN [calls |-> <<Call("update_post", <<existing.id, post_data, post_type>>, result, k)>>,
             outcome |-> IF answers.write_fails THEN "error" ELSE "updated"]
    ELSE LET result == IF answers.write_fails THEN RequestException ELSE Return([id |-> 7])
         IN [calls |-> <<Call("create_post", <<post_data, post_type>>, result, k)>>,
             outcome |-> IF answers.write_fails THEN "error" ELSE "created"]

\* the body of the loop for file k: the client calls it makes and how it ends
ProcessFile(file, answers, k) ==
    IF file.parsed = ParseError THEN [calls |-> <<>>, outcome |-> "error"]
    ELSE IF dry_run THEN [calls |-> <<>>, outcome |-> "shown"]
    ELSE IF file.map_raises THEN [calls |-> <<>>, outcome |-> "error"]
    ELSE LET fm == file.parsed.front_matter
             post_data == map_to_wordpress(file.parsed, answers.site)
             post_type == get_post_type(Or(fm.type, Str(<<"b", "l", "o", "g">>)).str)
             found == FindExisting(fm, post_data, post_type, answers, k)
             written == WritePost(found.existing, post_data, post_type, answers, k)
         IN [calls |-> found.calls \o written.calls, outcome |-> written.outcome]

\* migrate --input-path ... [--dry-run] over some input path
InitMigrate ==
    /\ NoProcessor
    /\ last = [op |-> "__init__", out |-> Return(None)]
    /\ dry_run \in BOOLEAN
    /\ files \in MigrateInputs
    /\ pc = "start"
    /\ file_index = 0
    /\ wp_calls = <<>>
    /\ created_count = 0
    /\ updated_count = 0
    /\ error_count = 0

\* from the start of the command to the loop over the files
migrate_start ==
    /\ pc = "start"
    /\ \E connected \in BOOLEAN :
          /\ wp_calls' =
                 IF ConnectionIsTested
                 THEN <<Call("test_connection", <<>>, [bool |-> connected], 0)>>
                 ELSE <<>>
          /\ pc' = IF ConnectionIsTested /\ ~connected THEN "done"
                   ELSE IF files = FileNotFoundError THEN "aborted"
                   ELSE IF files.found = <<>> THEN "done"
                   ELSE "loop"
    /\ UNCHANGED <<image_vars, last, dry_run, files, file_index,
                   created_count, updated_count, error_count>>

\* a loop that an exception in one file ends
migrate_file_MutStopOnError ==
    /\ pc = "loop"
    /\ file_index < Len(files.found)
    /\ \E answers \in SiteAnswers :
          LET pass == ProcessFile(files.found[file_index + 1], answers, file_index + 1)
          IN /\ wp_calls' = wp_calls \o pass.calls
             /\ created_count' = created_count + (IF pass.outcome = "created" THEN 1 ELSE 0)
             /\ updated_count' = updated_count + (IF pass.outcome = "updated" THEN 1 ELSE 0)
             /\ error_count' = error_count + (IF pass.outcome = "error" THEN 1 ELSE 0)
             /\ pc' = IF pass.outcome = "error" THEN "done" ELSE pc
    /\ file_index' = file_index + 1
    /\ UNCHANGED <<image_vars, last, dry_run, files>>

\* one pass of the loop: parse, then show (dry run) or map, look up and write
migrate_file ==
    /\ pc = "loop"
    /\ file_index < Len(files.found)
    /\ \E answers \in SiteAnswers :
          LET pass == ProcessFile(files.found[file_index + 1], answers, file_index + 1)
          IN /\ wp_calls' = wp_calls \o pass.calls
             /\ created_count' = created_count + (IF pass.outcome = "created" THEN 1 ELSE 0)
             /\ updated_count' = updated_count + (IF pass.outcome = "updated" THEN 1 ELSE 0)
             /\ error_count' = error_count + (IF pass.outcome = "error" THEN 1 ELSE 0)
    /\ file_index' = file_index + 1
    /\ UNCHANGED <<image_vars, last, dry_run, files, pc>>

\* the summary after the last file
migrate_summary ==
    /\ pc = "loop"
    /\ file_index = Len(files.found)
    /\ pc' = "done"
    /\ UNCHANGED <<image_vars, last, dry_run, files, file_index, wp_calls,
                   created_count, updated_count, error_count>>

NextMigrate ==
    \/ migrate_start
    \/ migrate_file
    \/ migrate_summary

SpecMigrate == InitMigrate /\ [][NextMigrate]_vars

\* C18: in a migrate run with --dry-run no call is made on the WordPress
\* client (test_connection, find_post_by_slug, find_post_by_meta, create_post,
\* update_post), for any number of files and whether or not files fail to parse.
C18_DryRunMakesNoCall ==
    dry_run => wp_calls = <<>>

C18_Witness ==
    /\ dry_run
    /\ pc = "done"
    /\ file_index = MaxFiles
    /\ error_count = 1

\* the calls made while file k was processed
CallsFor(k) == SelectSeq(wp_calls, LAMBDA c : c.file = k)
WritesFor(k) == SelectSeq(wp_calls, LAMBDA c : c.file = k /\ c.method \in {"create_post", "update_post"})

\* C19: in a run without --dry-run, for each file that parses and maps exactly
\* one write call is made: update_post with the id of the post found by slug or,
\* only if the slug lookup found nothing, by the '_external_id' meta value;
\* create_post otherwise.
C19_OneWritePerFile ==
    ~dry_run =>
        \A k \in 1..file_index :
            LET file == files.found[k]
                calls == CallsFor(k)
                writes == WritesFor(k)
                by_slug == SelectSeq(calls, LAMBDA c : c.method = "find_post_by_slug")
                by_meta == SelectSeq(calls, LAMBDA c : c.method = "find_post_by_meta")
                existing ==
                    IF by_slug[1].result # None THEN by_slug[1].result
                    ELSE IF by_meta # <<>> THEN by_meta[1].result
                    ELSE None
            IN (file.parsed # ParseError /\ ~file.map_raises) =>
                   /\ Len(writes) = 1
                   /\ Len(by_slug) = 1
                   /\ by_slug[1].result # None => by_meta = <<>>
                   /\ IF existing # None
                      THEN /\ writes[1].method = "update_post"
                           /\ writes[1].args[1] = existing.id
                      ELSE writes[1].method = "create_post"

C19_Witness ==
    /\ ~dry_run
    /\ pc = "done"
    /\ file_index = MaxFiles
    /\ Len(WritesFor(1)) = 1
    /\ WritesFor(1)[1].method = "update_post"
    /\ WritesFor(1)[1].args[1] = 6
    /\ Len(WritesFor(MaxFiles)) = 1
    /\ WritesFor(MaxFiles)[1].method = "create_post"

\* the two places a reference is looked for: beside the owning document, and
\* under the input root
OwningCandidate == Resolve(JoinPath(Parent(last.args[2]), last.args[1]))
RootCandidate == JoinPath(input_dir, LStrip(last.args[1], {"/"}))

\* C20: resolve_image_path returns a path only if it exists; a reference that
\* starts with '/' is looked for under the input root only, one that starts
\* with './' or '../' beside the owning document only, and a bare reference
\* beside the owning document first and under the input root only when nothing
\* is found there; None when no candidate exists.
C20_ResolutionOrder ==
    last.op = "resolve_image_path" =>
        LET img_path == last.args[1]
            Found(candidate) == IF Exists(candidate) THEN candidate ELSE None
        IN /\ last.out.ret # None => Exists(last.out.ret)
           /\ last.out.ret =
                  IF StartsWith(img_path, Slash) THEN Found(RootCandidate)
                  ELSE IF \/ StartsWith(img_path, <<".">> \o Slash)
                          \/ StartsWith(img_path, DotDot \o Slash)
                  THEN Found(OwningCandidate)
                  ELSE IF Exists(OwningCandidate) THEN OwningCandidate
                  ELSE Found(RootCandidate)

C20_Witness ==
    /\ last.op = "resolve_image_path"
    /\ last.args[1] = A \o Slash \o DotDot
    /\ Exists(OwningCandidate)
    /\ Exists(RootCandidate)
    /\ Denotes(OwningCandidate) # Denotes(RootCandidate)
    /\ last.out.ret = OwningCandidate

(***************************************************************************)
(* Scans of a tree with several featured keys and unparseable documents    *)
(***************************************************************************)
\* the value a featured key may carry: empty, a target that resolves to no
\* file, or a target that resolves (a different file for neighbouring keys)
FeaturedValuesOf(key) ==
    {<<>>, RefMissing,
     IF key \in {"featured_image", "cover_image"} THEN RefUpAX ELSE RefBareAY}

\* frontmatter over the four keys analyze_image_usage looks at
FeaturedFrontmatters ==
    {f \in UNION {[ks -> {<<>>, RefMissing, RefUpAX, RefBareAY}] :
                      ks \in SUBSET {FeaturedKeys[i] : i \in 1..Len(FeaturedKeys)}} :
        \A key \in DOMAIN f : f[key] \in FeaturedValuesOf(key)}

\* the text of a document: nothing, one reference, or two
ScanTexts ==
    {<<>>,
     <<[syntax |-> "markdown", target |-> RefBareAY]>>,
     <<[syntax |-> "markdown", target |-> RefUpAX], [syntax |-> "html", target |-> RefBareAY]>>}

\* a document whose slug is the stem of an image it references twice
SlugOfImageDoc ==
    [fm |-> ("slug" :> PathStem(ParsePath(YPng))),
     body |-> <<[syntax |-> "markdown", target |-> A \o Slash \o XPng],
                [syntax |-> "markdown", target |-> RefBareAY],
                [syntax |-> "html", target |-> RefBareAY]>>]

\* a/p.md: any featured frontmatter without a body, or a file that does not parse;
\* b/p.md: a document with or without references, or a file that does not parse
ScanDocsA ==
    {[fm |-> f, body |-> <<>>] : f \in FeaturedFrontmatters}
    \cup {Unparseable(raw) : raw \in ScanTexts}
ScanDocsB ==
    {[fm |-> <<>>, body |-> b] : b \in ScanTexts}
    \cup {[fm |-> ("image" :> RefBareAY), body |-> <<>>], SlugOfImageDoc}
    \cup {Unparseable(raw) : raw \in ScanTexts}

InitScan ==
    /\ input_dir \in InputDirs
    /\ docs \in {(<<A, PMd>> :> d1) @@ (<<B, PMd>> :> d2) : d1 \in ScanDocsA, d2 \in ScanDocsB}
    /\ image_usage = <<>>
    /\ file_images = <<>>
    /\ featured_images = <<>>
    /\ image_references = <<>>
    /\ scans = 0
    /\ last = [op |-> "__init__", out |-> Return(None)]
    /\ NoCommand

SpecScan == InitScan /\ [][Next]_vars

\* the document stored under a path of find_markdown_files
DocAt(md_file) == docs[RelativeTo(md_file, input_dir).parts]

\* every recorded reference, as <<image, document, type, target>>
RECURSIVE ReferencesFrom(_)
ReferencesFrom(i) ==
    IF i > Len(image_references) THEN <<>>
    ELSE [j \in 1..Len(image_references[i].val) |->
             <<image_references[i].key>> \o image_references[i].val[j]]
         \o ReferencesFrom(i + 1)

FeaturedReferencesOf(md_file) ==
    SelectSeq(ReferencesFrom(1), LAMBDA r : r[2] = md_file /\ r[3] = "featured")

\* the positions in the fixed key order whose key is present with a non-empty value
MatchingKeys(fm) ==
    {i \in 1..Len(FeaturedKeys) : FeaturedKeys[i] \in DOMAIN fm /\ fm[FeaturedKeys[i]] # <<>>}

\* C21: for each document a scan records at most one featured reference, taken
\* from the first of featured_image, image, cover_image, hero_image that is
\* present with a value; when that value resolves to no file nothing is
\* recorded, whatever the later keys hold.
C21_FirstFeaturedKeyWins ==
    \A md_file \in AllDocs :
        Parses(DocAt(md_file)) =>
            LET fm == DocAt(md_file).fm
                refs == FeaturedReferencesOf(md_file)
                first == CHOOSE i \in MatchingKeys(fm) : \A j \in MatchingKeys(fm) : i <= j
                value == fm[FeaturedKeys[first]]
            IN IF MatchingKeys(fm) = {} THEN refs = <<>>
               ELSE IF resolve_image_path(value, md_file) = None THEN refs = <<>>
               ELSE /\ Len(refs) = scans
                    /\ \A n \in 1..Len(refs) :
                          /\ refs[n][4] = value
                          /\ refs[n][1] = resolve_image_path(value, md_file)

C21_Witness ==
    /\ scans = 1
    /\ \E md_file \in AllDocs :
          /\ Parses(DocAt(md_file))
          /\ DOMAIN DocAt(md_file).fm = {"featured_image", "image", "hero_image"}
          /\ DocAt(md_file).fm["featured_image"] = <<>>
          /\ DocAt(md_file).fm["image"] = RefMissing
          /\ DocAt(md_file).fm["hero_image"] = RefBareAY
          /\ FeaturedReferencesOf(md_file) = <<>>

\* the documents of the tree that parse, in the order of the walk
ParsingFiles == SelectSeq(find_markdown_files, LAMBDA f : Parses(DocAt(f)))

EmptyIndex ==
    [image_usage |-> <<>>, file_images |-> <<>>, featured_images |-> <<>>,
     image_references |-> <<>>]

\* the indices after n scans of the documents md_files
RECURSIVE ScansOf(_, _, _)
ScansOf(ix, md_files, n) ==
    IF n = 0 THEN ix ELSE ScansOf(ScanFiles(ix, md_files), md_files, n - 1)

\* C22: a document that fails to parse is skipped: the scan raises nothing and
\* leaves the four indices as scanning the other documents alone leaves them.
C22_UnparseableSkipped ==
    /\ last.op = "analyze_image_usage" => last.out = Return(None)
    /\ Index = ScansOf(EmptyIndex, ParsingFiles, scans)

C22_Witness ==
    /\ scans >= 1
    /\ ~Parses(DocAt(UnderInputDir(<<A, PMd>>)))
    /\ Len(DocAt(UnderInputDir(<<A, PMd>>)).raw) = 2
    /\ Parses(DocAt(UnderInputDir(<<B, PMd>>)))
    /\ DictHas(file_images, UnderInputDir(<<B, PMd>>))

\* the documents of the tree that do not parse
FailingDocs == {md_file \in AllDocs : ~Parses(DocAt(md_file))}

\* the references of a text that are not external and resolve to a file
Resolvable(md_file, text) ==
    {i \in 1..Len(text) : /\ ~_is_external_url(text[i].target)
                          /\ resolve_image_path(text[i].target, md_file) # None}

\* C23 as stated: the references written in the raw text of a document that
\* cannot be parsed are still extracted and indexed.
C23_RawTextScanned ==
    scans >= 1 =>
        \A md_file \in FailingDocs :
            \A i \in Resolvable(md_file, DocAt(md_file).raw) :
                \E n \in 1..Len(ReferencesFrom(1)) :
                    /\ ReferencesFrom(1)[n][2] = md_file
                    /\ ReferencesFrom(1)[n][4] = DocAt(md_file).raw[i].target

\* C23 amended: a document that cannot be parsed is treated as one with empty
\* frontmatter and an empty body: no reference of its raw text is indexed.
C23_RawTextDropped ==
    \A md_file \in FailingDocs :
        /\ \A n \in 1..Len(ReferencesFrom(1)) : ReferencesFrom(1)[n][2] # md_file
        /\ ~DictHas(file_images, md_file)
        /\ ~DictHas(featured_images, md_file)
        /\ \A i \in 1..Len(image_usage) : md_file \notin UsingDocs(i)

C23_Witness ==
    /\ scans >= 1
    /\ \E md_file \in FailingDocs : Resolvable(md_file, DocAt(md_file).raw) # {}
    /\ last.op = "process"

\* the operations that read the indices after the scan phase
Readers == {"create_rename_dictionary", "find_orphaned_images", "create_usage_report"}

\* C24: create_rename_dictionary, find_orphaned_images and create_usage_report
\* leave the four indices as they are, and a call repeated right after itself
\* has the same outcome.
C24_ReadersLeaveIndices ==
    [][last'.op \in Readers =>
          /\ index' = index
          /\ last.op = last'.op => last'.out = last.out]_vars

C24_Witness ==
    /\ last.op = "create_usage_report"
    /\ scans >= 1
    /\ image_usage # <<>>
    /\ featured_images # <<>>
    /\ file_images # <<>>

\* C27: for every document d of the featured index, featured_images[d] is a key
\* of the usage index and d is among its users; an image that is flagged
\* featured and has one usage entry is the featured image of that very document.
C27_FeaturedWithinUsage ==
    /\ \A i \in 1..Len(featured_images) :
          /\ DictHas(image_usage, featured_images[i].val)
          /\ featured_images[i].key \in UsingDocs(DictIndex(image_usage, featured_images[i].val))
    /\ \A i \in 1..Len(image_usage) :
          (IsFeatured(Index, image_usage[i].key) /\ Len(image_usage[i].val) = 1) =>
              /\ DictHas(featured_images, image_usage[i].val[1])
              /\ DictGet(featured_images, image_usage[i].val[1]) = image_usage[i].key

C27_Witness ==
    /\ scans = 1
    /\ Len(featured_images) = 1
    /\ Len(image_usage) = 2
    /\ \E i \in 1..Len(image_usage) :
          IsFeatured(Index, image_usage[i].key) /\ Len(image_usage[i].val) = 1

\* C26: within one document, two different images that only this document
\* uses (its featured image, its inline images) never get the same new filename.
C26_DistinctWithinDocument ==
    HasRenameMap =>
        \A i, j \in 1..Len(image_usage) :
            (/\ i # j
             /\ Denotes(image_usage[i].key) # Denotes(image_usage[j].key)
             /\ Cardinality(UsingDocs(i)) = 1
             /\ UsingDocs(i) = UsingDocs(j))
                => DictGet(RenameMap, RenameKey(i)) # DictGet(RenameMap, RenameKey(j))

\* the command got past the connection test and found files to process
LoopEntered ==
    /\ files # FileNotFoundError
    /\ wp_calls # <<>>
    /\ wp_calls[1].result = [bool |-> TRUE]
    /\ files.found # <<>>

\* C25: in a run without --dry-run an exception raised for one file does not
\* stop the loop: every file gone through is counted in exactly one of
\* created_count, updated_count and error_count, and when the command ends
\* the three add up to the number of files found.
C25_EveryFileCounted ==
    (~dry_run /\ pc # "start" /\ LoopEntered) =>
        /\ created_count + updated_count + error_count = file_index
        /\ pc = "done" => file_index = Len(files.found)

C25_Witness ==
    /\ ~dry_run
    /\ pc = "done"
    /\ LoopEntered
    /\ Len(files.found) = MaxFiles
    /\ files.found[1].parsed = ParseError
    /\ error_count = 1
    /\ created_count + updated_count = MaxFiles - 1

(***************************************************************************)
(* Step 1: ContentPreparer.update_image_references                         *)
(***************************************************************************)
\* s.replace(a, b) for single characters
ReplaceChar(s, a, b) == [i \in 1..Len(s) |-> IF s[i] = a THEN b ELSE s[i]]

\* str(rel_to_input): the reference as a path relative to the input root; a
\* reference that starts with '/' loses its slashes, any other is resolved
\* beside the document and kept as written when that lies outside the root
RelToInput(img_path, md_file_path) ==
    IF StartsWith(img_path, <<"/">>) THEN PathStr(ParsePath(LStrip(img_path, {"/"})))
    ELSE LET abs_path == Resolve(JoinPath(Parent(md_file_path), img_path))
             rel == RelativeTo(abs_path, Resolve(input_dir))
         IN IF rel = ValueError THEN PathStr(ParsePath(img_path)) ELSE PathStr(rel)

\* the loop over rename_dict.items() from entry i on: the new name of the
\* first entry whose key is the path, with either kind of separator; else None
RECURSIVE RenamedFrom(_, _, _)
RenamedFrom(rel_to_input, rename_dict, i) ==
    IF i > Len(rename_dict) THEN None
    ELSE IF \/ ReplaceChar(rel_to_input, "/", "\\") = rename_dict[i].key
            \/ ReplaceChar(rel_to_input, "\\", "/") = ReplaceChar(rename_dict[i].key, "\\", "/")
         THEN [str |-> rename_dict[i].val]
         ELSE RenamedFrom(rel_to_input, rename_dict, i + 1)

UploadsPrefix ==
    <<"/", "w", "p", "-", "c", "o", "n", "t", "e", "n", "t", "/",
      "u", "p", "l", "o", "a", "d", "s", "/">>

\* replace_md_image / replace_html_image on one reference
ReplaceImage(token, md_file_path, rename_dict) ==
    LET new_name == RenamedFrom(RelToInput(token.target, md_file_path), rename_dict, 1)
    IN IF StartsWith(token.target, <<"h", "t", "t", "p">>) \/ new_name = None THEN token
       ELSE [token EXCEPT !.target = UploadsPrefix \o new_name.str]

\* update_image_references with self.rename_dict = rename_dict
update_image_references(content, md_file_path, rename_dict) ==
    IF rename_dict = <<>> THEN content
    ELSE [i \in 1..Len(content) |-> ReplaceImage(content[i], md_file_path, rename_dict)]

\* step 1 on one document, with the rename map the last process() run returned
call_update_image_references ==
    /\ last.op = "process"
    /\ ~Raised(last.out)
    /\ \E md_file \in AllDocs :
          last' = [op |-> "update_image_references",
                   args |-> <<DocAt(md_file).body, md_file, last.out.ret.rename_dict>>,
                   out |-> update_image_references(DocAt(md_file).body, md_file,
                                                   last.out.ret.rename_dict)]
    /\ UNCHANGED <<image_vars, cli_vars>>

NextPipeline ==
    \/ process
    \/ call_update_image_references

SpecPipeline == Init /\ [][NextPipeline]_vars

\* C28: every inline reference that step 0 resolves to a file with a rename
\* entry k -> n is rewritten by step 1 to '/wp-content/uploads/n'; every other
\* reference is left as written.
C28_StepsAgree ==
    last.op = "update_image_references" =>
        LET content == last.args[1]
            md_file == last.args[2]
            rename_dict == last.args[3]
            Key(target) == RelativeTo(resolve_image_path(target, md_file), input_dir)
            Indexed(target) ==
                /\ ~_is_external_url(target)
                /\ resolve_image_path(target, md_file) # None
                /\ Key(target) # ValueError
                /\ DictHas(rename_dict, PathStr(Key(target)))
        IN \A i \in 1..Len(content) :
               last.out[i] =
                   IF Indexed(content[i].target)
                   THEN [content[i] EXCEPT
                           !.target = UploadsPrefix
                                      \o DictGet(rename_dict, PathStr(Key(content[i].target)))]
                   ELSE content[i]

(***************************************************************************)
(* Step 5: ContentCreator                                                  *)
(***************************************************************************)
\* the largest number of prepared items
MaxItems == 2

ConnectionError == [exc |-> "ConnectionError"]

\* the prepared item at position k: its title tells the items apart, and its
\* slug may be missing
PreparedItems(k) == {[title |-> k, slug |-> slug] : slug \in {None, Str(<<"s">>)}}

\* what the site answers to the write request: a status, or no answer at all
WriteAnswers == {[status |-> 200], [status |-> 201], [status |-> 500], RequestException}

\* the answers of the site while one item is processed: the post with the
\* item's slug, if any, and the answer to the write request
ItemAnswers == [existing : {None, [id |-> 5]}, write : WriteAnswers]

\* check_existing_post is only asked when the item has a slug
ExistingPost(post_data, answers) ==
    IF Truthy(post_data.slug) THEN answers.existing ELSE None

\* create_or_update_post: the post object the site answers with (the updated
\* post, or a new one; a post object has no 'message' field), or None when the
\* request is rejected or raises
create_or_update_post(post_data, answers) ==
    LET existing_post == ExistingPost(post_data, answers)
    IN IF answers.write = RequestException THEN None
       ELSE IF answers.write.status \in {200, 201}
       THEN [id |-> IF existing_post # None THEN existing_post.id ELSE 7]
       ELSE None

\* 'Updated' in str(result.get('message', ''))
SaysUpdated(result) == "message" \in DOMAIN result /\ result.message = "Updated"

\* the loop of process_content from item i on
RECURSIVE ProcessContentFrom(_, _, _, _)
ProcessContentFrom(prepared_content, answers, i, lists) ==
    IF i > Len(prepared_content) THEN lists
    ELSE LET post_data == prepared_content[i]
             result == create_or_update_post(post_data, answers[i])
             entry == [title |-> post_data.title, slug |-> post_data.slug]
             next ==
                 IF result # None
                 THEN IF SaysUpdated(result)
                      THEN [lists EXCEPT !.updated =
                                Append(@, entry @@ [wordpress_id |-> result.id])]
                      ELSE [lists EXCEPT !.created =
                                Append(@, entry @@ [wordpress_id |-> result.id])]
                 ELSE [lists EXCEPT !.failed = Append(@, entry)]
         IN ProcessContentFrom(prepared_content, answers, i + 1, next)

\* process_content: ConnectionError when the connection test fails, else the
\* three lists and their summary
ProcessContent(prepared_content, connected, answers) ==
    IF ~connected THEN Raise(ConnectionError)
    ELSE LET lists == ProcessContentFrom(prepared_content, answers, 1,
                                         [created |-> <<>>, updated |-> <<>>, failed |-> <<>>])
         IN Return(lists @@ [summary |-> [total |-> Len(prepared_content),
                                          created |-> Len(lists.created),
                                          updated |-> Len(lists.updated),
                                          failed |-> Len(lists.failed)]])

\* ContentCreator(input_dir, output_dir, content_file, media_map_file)
InitCreator ==
    /\ NoProcessor
    /\ NoCommand
    /\ last = [op |-> "__init__", out |-> Return(None)]

process_content ==
    /\ last.op = "__init__"
    /\ \E n \in 0..MaxItems : \E connected \in BOOLEAN :
          \E prepared_content \in {c \in [1..n -> UNION {PreparedItems(k) : k \in 1..n}] :
                                      \A k \in 1..n : c[k].title = k} :
             \E answers \in [1..n -> ItemAnswers] :
                last' = [op |-> "process_content",
                         args |-> <<prepared_content, connected, answers>>,
                         out |-> ProcessContent(prepared_content, connected, answers)]
    /\ UNCHANGED <<image_vars, cli_vars>>

NextCreator == process_content

SpecCreator == InitCreator /\ [][NextCreator]_vars

\* the positions of the entries of a list that were made for the item titled k
EntriesFor(list, k) == {n \in 1..Len(list) : list[n].title = k}

\* C29: process_content records every prepared item in exactly one of created,
\* updated and failed, so that the summary counts add up to the total; an item
\* is under 'updated' exactly when an existing post with its slug was found
\* and updated, and under 'created' exactly when a new post was created.
C29_ItemsClassified ==
    (last.op = "process_content" /\ last.out # ConnectionError) =>
        LET prepared_content == last.args[1]
            answers == last.args[3]
            results == last.out.ret
            Written(k) == /\ answers[k].write # RequestException
                          /\ answers[k].write.status \in {200, 201}
            Found(k) == Truthy(prepared_content[k].slug) /\ answers[k].existing # None
        IN /\ results.summary.created + results.summary.updated + results.summary.failed
                  = results.summary.total
           /\ \A k \in 1..Len(prepared_content) :
                 /\ Cardinality(EntriesFor(results.created, k))
                    + Cardinality(EntriesFor(results.updated, k))
                    + Cardinality(EntriesFor(results.failed, k)) = 1
                 /\ EntriesFor(results.updated, k) # {} <=> (Written(k) /\ Found(k))
                 /\ EntriesFor(results.created, k) # {} <=> (Written(k) /\ ~Found(k))

(***************************************************************************)
(* WordPressClient.get_or_create_taxonomy_term                             *)
(***************************************************************************)
\* the frames of get_or_create_taxonomy_term and _create_taxonomy_term that the
\* interpreter allows on the stack before it raises RecursionError (the
\* interpreter's limit, scaled down)
RecursionLimit == 4
RecursionError == [exc |-> "RecursionError"]

\* the longest list of terms a search answers with
MaxTerms == 2

TermNames == {<<"t">>, <<"T">>, <<"n">>}

\* a term of the site; a term without a name reads as ''
ServerTerms == [id : {30, 31}, name : TermNames \cup {<<>>}]

\* what the site answers to the search: a list of terms, or a failure
\* (raise_for_status or the connection)
SearchAnswers ==
    {RequestException} \cup
    {[json |-> terms] : terms \in UNION {[1..n -> ServerTerms] : n \in 0..MaxTerms}}

\* what the site answers to the create request
CreateAnswers ==
    {RequestException, [status |-> 409], [status |-> 500], [status |-> 201, json |-> [id |-> 20]]}

\* for term in terms: if term.get('name', '').lower() == term_name.lower()
RECURSIVE ExactMatch(_, _)
ExactMatch(terms, term_name) ==
    IF terms = <<>> THEN None
    ELSE IF MapLower(Head(terms).name) = MapLower(term_name)
    THEN [int |-> Head(terms).id]
    ELSE ExactMatch(Tail(terms), term_name)

\* one more frame on the stack, or RecursionError, which no handler of the two
\* methods catches
Enter(call, method) ==
    IF call.depth = RecursionLimit
    THEN [call EXCEPT !.pc = "done", !.out = RecursionError]
    ELSE [call EXCEPT !.pc = method, !.depth = @ + 1]

Leave(call, out) == [call EXCEPT !.pc = "done", !.out = out]

InitTerms ==
    /\ NoProcessor
    /\ NoCommand
    /\ last = [op |-> "__init__", out |-> Return(None)]

\* client.get_or_create_taxonomy_term(taxonomy, term_name)
call_get_or_create_taxonomy_term ==
    /\ last.op = "__init__"
    /\ \E term_name \in {<<"t">>, <<"n">>} :
          last' = [op |-> "get_or_create_taxonomy_term", term_name |-> term_name,
                   pc |-> "search", depth |-> 1, requests |-> 0,
                   response |-> None, out |-> None]
    /\ UNCHANGED <<image_vars, cli_vars>>

\* get_or_create_taxonomy_term: the search and the look for an exact match
get_or_create_taxonomy_term ==
    /\ last.op = "get_or_create_taxonomy_term"
    /\ last.pc = "search"
    /\ \E response \in SearchAnswers :
          LET call == [last EXCEPT !.requests = @ + 1, !.response = response]
          IN last' = IF response = RequestException THEN Leave(call, Return(None))
                     ELSE IF ExactMatch(response.json, last.term_name) # None
                     THEN Leave(call, Return(ExactMatch(response.json, last.term_name)))
                     ELSE Enter(call, "create")
    /\ UNCHANGED <<image_vars, cli_vars>>

\* _create_taxonomy_term: the create request; on 409 the search is made again
_create_taxonomy_term ==
    /\ last.op = "get_or_create_taxonomy_term"
    /\ last.pc = "create"
    /\ \E response \in CreateAnswers :
          LET call == [last EXCEPT !.requests = @ + 1, !.response = response]
          IN last' = IF response = RequestException THEN Leave(call, Return(None))
                     ELSE IF response.status = 409 THEN Enter(call, "search")
                     ELSE IF response.status >= 400 THEN Leave(call, Return(None))
                     ELSE Leave(call, Return([int |-> response.json.id]))
    /\ UNCHANGED <<image_vars, cli_vars>>

NextTerms ==
    \/ call_get_or_create_taxonomy_term
    \/ get_or_create_taxonomy_term
    \/ _create_taxonomy_term

SpecTerms == InitTerms /\ [][NextTerms]_vars

\* C30: every call of get_or_create_taxonomy_term ends by returning a term id
\* or None, whatever the site answers, also when the site keeps answering the
\* search with no exact match and the create request with 409 Conflict.
C30_ReturnsTermOrNone ==
    (last.op = "get_or_create_taxonomy_term" /\ last.pc = "done") =>
        \/ last.out = Return(None)
        \/ \E id \in {20, 30, 31} : last.out = Return([int |-> id])

====
